---- MODULE Spec2Model ----
(***************************************************************************)
(* Model of the relay fan-out engine of agent-discovery: connectRelay,     *)
(* queryRelay, queryRelays and publishToRelays (the relay module, found in *)
(* src/lib/trust.js lines 223-376).                                        *)
(*                                                                         *)
(* One call is modelled at a time.  Every relay of the call has one task;  *)
(* the callbacks of the task (open, error, message, close, timers) are the *)
(* actions.  A callback runs to completion, and the continuation of        *)
(* Promise.allSettled runs in the microtasks of the callback that settles  *)
(* the last task, so the merge is part of that action.                     *)
(*                                                                         *)
(* Time is a discrete clock.  A timer fires when the clock has reached its *)
(* deadline and the clock does not pass a deadline of an armed timer.      *)
(*                                                                         *)
(* The WebSocket is the transport: "connecting", "open", "closing" (close  *)
(* was called locally, the closing handshake is not finished and frames    *)
(* already on the way are still delivered) and "closed".                   *)
(*                                                                         *)
(* The second part models what is built on the fan-out: calculateTrustScore *)
(* and enrichWithTrust (src/lib/trust.js lines 1-101), parseServiceEvent   *)
(* (lines 103-221) and findServices (src/lib/query.js).  There the calls   *)
(* of queryRelays are steps that deliver the array queryRelays returned.   *)
(*                                                                         *)
(* The third part models buildServiceTags, publishService and              *)
(* removeService (src/lib/publish.js) with the wall clock in seconds, and  *)
(* getService (src/lib/query.js).                                          *)
(***************************************************************************)
EXTENDS Integers, Sequences, FiniteSets, TLC

VARIABLES
    now,          \* the clock, in ticks since the call started
    ws,           \* ws[p]: state of the WebSocket of relay p
    timer,        \* timer[p]: deadlines of the armed timers of relay p's task
    opened,       \* opened[p]: connectRelay resolved, the task's handlers are registered
    status,       \* status[p]: state of the promise of relay p's task
    events,       \* events[p]: the events array of queryRelay for relay p
    delivered,    \* delivered[p]: records relay p sent on the subscription of this query
    sent,         \* sent[p]: messages the client sent to relay p
    closeCalled,  \* closeCalled[p]: the call has called ws.close() on relay p's socket
    exit,         \* exit[p]: the event that settled relay p's task ("" while pending)
    reason,       \* reason[p]: message of the error relay p's task was rejected with
    ackId,        \* ackId[p]: the event id carried by the OK message that settled the task
    returned,     \* the call has returned
    merged,       \* value returned by queryRelays
    outcome,      \* value returned by publishToRelays
    call,         \* the call examined: "queryRelays", "publishToRelays" or "none"
    resolved,     \* history: resolved[p] is what the events array of relay p's task
                  \* held when the task settled
    malformed,    \* history: the number of messages on which JSON.parse threw
                  \* while the task that received them was pending
    foreign,      \* history: the number of EVENT and EOSE messages of another
                  \* subscription that a pending query task received
    late,         \* history: a publish task has received an OK message after it
                  \* was settled
    attestations, \* calculateTrustScore: the attestations argument
    trust,        \* calculateTrustScore: the value returned
    scored,       \* calculateTrustScore has returned
    queried,      \* findServices: the events queryRelays returned
    opts,         \* findServices: the options of the call
    latest,       \* findServices: the values of the latest-per-key map
    filtered,     \* findServices: services after the status and price filters
    fetch,        \* enrichWithTrust: fetch[pk] is the state of the task of owner pk
    fetched,      \* enrichWithTrust: fetched[pk] is what fetchAttestations returned
    trustMap,     \* enrichWithTrust: the entries of trustMap
    enriched,     \* enrichWithTrust: the value returned
    sorted,       \* findServices: services after the trust filter and the sort
    result,       \* findServices: the value returned
    findPc,       \* findServices: "querying", "enriching" or "done"
    clock,        \* Date.now() in whole seconds
    definition,   \* the service definition the owner publishes
    announced,    \* the events publishService and removeService have finalized
    getPc,        \* getService: "querying", "enriching" or "done"
    got           \* getService: the value returned, <<>> for null

relayVars == <<now, ws, timer, opened, status, events, delivered, sent, closeCalled,
               exit, reason, ackId, returned, merged, outcome, call, resolved,
               malformed, foreign, late>>

trustVars == <<attestations, trust, scored>>

findVars == <<queried, opts, latest, filtered, fetch, fetched, trustMap, enriched,
              sorted, result, findPc>>

serviceVars == <<clock, definition, announced>>

getVars == <<getPc, got>>

vars == <<relayVars, trustVars, findVars, serviceVars, getVars>>

-----------------------------------------------------------------------------
(* Bounds *)

NumQueryRelays == 2

NumPublishRelays == 3

Timeout == 1

MaxId == 2

MaxMsgs == 2

-----------------------------------------------------------------------------
(* Values *)

Relays == DOMAIN ws

Url(p) == "wss://relay" \o ToString(p)

\* the records a relay may send: the signed records and one forged record,
\* which carries the id of a signed one
Records == [id : 1..MaxId, valid : {TRUE}] \cup {[id |-> 1, valid |-> FALSE]}

\* verifyEvent of nostr-tools: an external predicate of the record
VerifyEvent(e) == e.valid

\* the subscription id generated for the query of relay p
SubId(p) == "q_" \o ToString(p)

ForeignSubId == "q_foreign"

QueryMsgs(p) ==
    [type : {"EVENT"}, sub : {SubId(p)}, event : Records]
        \cup [type : {"EVENT"}, sub : {ForeignSubId}, event : {[id |-> 1, valid |-> TRUE]}]
        \cup [type : {"EOSE"}, sub : {SubId(p), ForeignSubId}]
        \cup {[type |-> "malformed"]}

RECURSIVE SumLen(_, _)
SumLen(f, n) == IF n = 0 THEN 0 ELSE Len(f[n]) + SumLen(f, n - 1)

TotalDelivered == SumLen(delivered, Cardinality(Relays))

-----------------------------------------------------------------------------
(* Transport *)

\* ws.close()
CloseWs(w) ==
    CASE w = "open" -> "closing"
      [] w = "connecting" -> "closed"
      [] OTHER -> w

\* ws.send(m): a frame leaves only on an open socket
SendWs(p, m) ==
    IF ws[p] = "open" THEN [sent EXCEPT ![p] = Append(@, m)] ELSE sent

SettleOverwrites(p, st) == [status EXCEPT ![p] = st]

\* resolve / reject of a task's promise: the first settlement stands
Settle(p, st) == IF status[p] = "pending" THEN [status EXCEPT ![p] = st] ELSE status

\* the event that settled the task
SettledBy(p, how) == IF status[p] = "pending" THEN [exit EXCEPT ![p] = how] ELSE exit

\* resolve(events) of the query tasks that settle in a step: what the array
\* holds at that moment
Resolved ==
    [p \in Relays |->
        IF status[p] = "pending" /\ status'[p] # "pending" THEN events'[p] ELSE resolved[p]]

-----------------------------------------------------------------------------
(* queryRelays: the merge *)

MergeStepNoDedup(acc, e) ==
    [seen |-> acc.seen \cup {e.id}, events |-> Append(acc.events, e)]

MergeStep(acc, e) ==
    IF e.id \in acc.seen
      THEN acc
      ELSE [seen |-> acc.seen \cup {e.id}, events |-> Append(acc.events, e)]

RECURSIVE MergeValue(_, _)
MergeValue(acc, value) ==
    IF value = <<>> THEN acc
    ELSE MergeValue(MergeStep(acc, Head(value)), Tail(value))

RECURSIVE MergeFrom(_, _, _, _)
MergeFrom(acc, i, st, ev) ==
    IF i > Len(st) THEN acc
    ELSE MergeFrom(IF st[i] = "fulfilled" THEN MergeValue(acc, ev[i]) ELSE acc,
                   i + 1, st, ev)

\* st, ev: the settled tasks in relay order (their status, their value)
MergeResults(st, ev) == MergeFrom([seen |-> {}, events |-> <<>>], 1, st, ev).events

QueryJoinIncremental(st, ev) ==
    /\ returned' = \A p \in Relays : st[p] # "pending"
    /\ merged' = MergeResults(st, ev)

\* the continuation of Promise.allSettled in queryRelays
QueryJoin(st, ev) ==
    IF \A p \in Relays : st[p] # "pending"
      THEN /\ returned' = TRUE
           /\ merged' = MergeResults(st, ev)
      ELSE UNCHANGED <<returned, merged>>

-----------------------------------------------------------------------------
(* queryRelay *)

QueryConnectRejects == "rejected"

\* the catch around connectRelay: the task is fulfilled with []
QueryConnectFailed == "fulfilled"

OnEventNoVerify(evs, e) == Append(evs, e)

OnEventReplace(evs, e) == IF ~VerifyEvent(e) THEN evs ELSE <<e>>

OnEventDropsAll(evs, e) == IF ~VerifyEvent(e) THEN <<>> ELSE Append(evs, e)

\* the EVENT branch of the message handler
OnEvent(evs, e) == IF ~VerifyEvent(e) THEN evs ELSE Append(evs, e)

\* the open handler of connectRelay and the body of queryRelay after the await
QOpen(p) ==
    /\ ~returned
    /\ UNCHANGED <<call, resolved, malformed, foreign, late, trustVars, findVars,
                 serviceVars, getVars>>
    /\ ws[p] = "connecting"
    /\ ws' = [ws EXCEPT ![p] = "open"]
    /\ opened' = [opened EXCEPT ![p] = TRUE]
    /\ timer' = [timer EXCEPT ![p] = {now + Timeout}]
    /\ sent' = [sent EXCEPT ![p] = Append(@, "REQ")]
    /\ UNCHANGED <<now, status, events, delivered, closeCalled, exit, reason, ackId,
                   returned, merged, outcome>>

\* the error handler of connectRelay while connecting
QConnError(p) ==
    /\ ~returned
    /\ UNCHANGED <<call, trustVars, findVars, serviceVars, getVars>>
    /\ ws[p] = "connecting"
    /\ ws' = [ws EXCEPT ![p] = "closed"]
    /\ timer' = [timer EXCEPT ![p] = {}]
    /\ status' = Settle(p, QueryConnectFailed)
    /\ exit' = SettledBy(p, "connect-error")
    /\ QueryJoin(status', events)
    /\ UNCHANGED <<now, opened, events, delivered, sent, closeCalled, reason,
                   ackId, outcome>>

\* the timer of connectRelay
QConnTimeout(p) ==
    /\ ~returned
    /\ UNCHANGED <<call, trustVars, findVars, serviceVars, getVars>>
    /\ ~opened[p]
    /\ \E d \in timer[p] : now >= d
    /\ ws' = [ws EXCEPT ![p] = CloseWs(@)]
    /\ closeCalled' = [closeCalled EXCEPT ![p] = TRUE]
    /\ timer' = [timer EXCEPT ![p] = {}]
    /\ status' = Settle(p, QueryConnectFailed)
    /\ exit' = SettledBy(p, "connect-timeout")
    /\ QueryJoin(status', events)
    /\ UNCHANGED <<now, opened, events, delivered, sent, reason, ackId, outcome>>

QMessageAnySub(p, m) ==
    /\ ~returned
    /\ UNCHANGED <<call, trustVars, findVars, serviceVars, getVars>>
    /\ opened[p]
    /\ ws[p] \in {"open", "closing"}
    /\ CASE m.type = "EVENT" ->
              /\ TotalDelivered < MaxMsgs
              /\ delivered' = [delivered EXCEPT ![p] = Append(@, m.event)]
              /\ events' = [events EXCEPT ![p] = OnEvent(@, m.event)]
              /\ UNCHANGED <<ws, timer, status, sent, closeCalled, exit, returned,
                             merged>>
         [] m.type = "EOSE" ->
              /\ timer' = [timer EXCEPT ![p] = {}]
              /\ sent' = SendWs(p, "CLOSE")
              /\ ws' = [ws EXCEPT ![p] = CloseWs(@)]
              /\ closeCalled' = [closeCalled EXCEPT ![p] = TRUE]
              /\ status' = Settle(p, "fulfilled")
              /\ exit' = SettledBy(p, "eose")
              /\ QueryJoin(status', events)
              /\ UNCHANGED <<events, delivered>>
         [] OTHER ->
              UNCHANGED <<ws, timer, status, events, delivered, sent, closeCalled,
                          exit, returned, merged>>
    /\ UNCHANGED <<now, opened, reason, ackId, outcome>>

\* the message handler of queryRelay
QMessage(p, m) ==
    /\ ~returned
    /\ UNCHANGED <<call, trustVars, findVars, serviceVars, getVars>>
    /\ opened[p]
    /\ ws[p] \in {"open", "closing"}
    /\ CASE m.type = "EVENT" /\ m.sub = SubId(p) ->
              /\ TotalDelivered < MaxMsgs
              /\ delivered' = [delivered EXCEPT ![p] = Append(@, m.event)]
              /\ events' = [events EXCEPT ![p] = OnEvent(@, m.event)]
              /\ UNCHANGED <<ws, timer, status, sent, closeCalled, exit, returned,
                             merged>>
         [] m.type = "EOSE" /\ m.sub = SubId(p) ->
              /\ timer' = [timer EXCEPT ![p] = {}]
              /\ sent' = SendWs(p, "CLOSE")
              /\ ws' = [ws EXCEPT ![p] = CloseWs(@)]
              /\ closeCalled' = [closeCalled EXCEPT ![p] = TRUE]
              /\ status' = Settle(p, "fulfilled")
              /\ exit' = SettledBy(p, "eose")
              /\ QueryJoin(status', events)
              /\ UNCHANGED <<events, delivered>>
         [] OTHER ->
              UNCHANGED <<ws, timer, status, events, delivered, sent, closeCalled,
                          exit, returned, merged>>
    /\ UNCHANGED <<now, opened, reason, ackId, outcome>>

QTimeoutResends(p) ==
    /\ ~returned
    /\ UNCHANGED <<call, trustVars, findVars, serviceVars, getVars>>
    /\ opened[p]
    /\ \E d \in timer[p] : now >= d
    /\ timer' = [timer EXCEPT ![p] = {now + Timeout}]
    /\ sent' = SendWs(p, "REQ")
    /\ UNCHANGED <<now, ws, opened, status, events, delivered, closeCalled, exit, reason,
                   ackId, returned, merged, outcome>>

QTimeoutKeepsWaiting(p) ==
    /\ ~returned
    /\ UNCHANGED <<call, trustVars, findVars, serviceVars, getVars>>
    /\ opened[p]
    /\ \E d \in timer[p] : now >= d
    /\ ws' = [ws EXCEPT ![p] = CloseWs(@)]
    /\ closeCalled' = [closeCalled EXCEPT ![p] = TRUE]
    /\ UNCHANGED <<now, timer, opened, status, events, delivered, sent, exit, reason,
                   ackId, returned, merged, outcome>>

\* the timer of queryRelay
QTimeout(p) ==
    /\ ~returned
    /\ UNCHANGED <<call, trustVars, findVars, serviceVars, getVars>>
    /\ opened[p]
    /\ \E d \in timer[p] : now >= d
    /\ timer' = [timer EXCEPT ![p] = {}]
    /\ ws' = [ws EXCEPT ![p] = CloseWs(@)]
    /\ closeCalled' = [closeCalled EXCEPT ![p] = TRUE]
    /\ status' = Settle(p, "fulfilled")
    /\ exit' = SettledBy(p, "timeout")
    /\ QueryJoin(status', events)
    /\ UNCHANGED <<now, opened, events, delivered, sent, reason, ackId, outcome>>

\* the error handler of queryRelay; the transport drops a socket that failed
QError(p) ==
    /\ ~returned
    /\ UNCHANGED <<call, trustVars, findVars, serviceVars, getVars>>
    /\ opened[p]
    /\ ws[p] = "open"
    /\ ws' = [ws EXCEPT ![p] = "closed"]
    /\ timer' = [timer EXCEPT ![p] = {}]
    /\ status' = Settle(p, "fulfilled")
    /\ exit' = SettledBy(p, "error")
    /\ QueryJoin(status', events)
    /\ UNCHANGED <<now, opened, events, delivered, sent, closeCalled, reason,
                   ackId, outcome>>

\* the close handler of queryRelay
QClose(p) ==
    /\ ~returned
    /\ UNCHANGED <<call, trustVars, findVars, serviceVars, getVars>>
    /\ opened[p]
    /\ ws[p] \in {"open", "closing"}
    /\ ws' = [ws EXCEPT ![p] = "closed"]
    /\ timer' = [timer EXCEPT ![p] = {}]
    /\ status' = Settle(p, "fulfilled")
    /\ exit' = SettledBy(p, "close")
    /\ QueryJoin(status', events)
    /\ UNCHANGED <<now, opened, events, delivered, sent, closeCalled, reason,
                   ackId, outcome>>

\* time passes, never beyond the deadline of an armed timer
Tick ==
    /\ ~returned
    /\ UNCHANGED <<call, resolved, malformed, foreign, late, trustVars, findVars,
                 serviceVars, getVars>>
    /\ \A p \in Relays : \A d \in timer[p] : now < d
    /\ now' = now + 1
    /\ UNCHANGED <<ws, timer, opened, status, events, delivered, sent, closeCalled,
                   exit, reason, ackId, returned, merged, outcome>>

NoOutcome == [successes |-> 0, failures |-> <<>>, total |-> 0]

\* a JavaScript number that is an integer, and the value NaN
Num(n) == [nan |-> FALSE, n |-> n]

NotANumber == [nan |-> TRUE, n |-> 0]

\* a > b, a >= b, a <= b and a + b on these numbers: a comparison with NaN is
\* false and a sum with NaN is NaN
Greater(a, b) == ~a.nan /\ ~b.nan /\ a.n > b.n

GreaterEq(a, b) == ~a.nan /\ ~b.nan /\ a.n >= b.n

LessEq(a, b) == ~a.nan /\ ~b.nan /\ a.n <= b.n

Plus(a, b) == IF a.nan \/ b.nan THEN NotANumber ELSE Num(a.n + b.n)

\* { score: 0, attesters: 0, details: [] }
ZeroTrust == [score |-> Num(0), attesters |-> 0, details |-> <<>>]

\* an options object without properties; a property is <<>> when it is
\* undefined and <<v>> when it has the value v
NoOptions ==
    [status |-> <<>>, maxPrice |-> <<>>, minTrust |-> <<>>, includeTrust |-> <<>>,
     limit |-> <<>>]

\* no call of calculateTrustScore is examined
TrustIdle ==
    /\ attestations = <<>>
    /\ trust = ZeroTrust
    /\ scored = FALSE

\* no service is published and getService is not called
ServiceIdle ==
    /\ clock = 0
    /\ definition = <<>>
    /\ announced = <<>>
    /\ getPc = "idle"
    /\ got = <<>>

\* no call of findServices is examined
FindIdle ==
    /\ queried = <<>>
    /\ opts = NoOptions
    /\ latest = <<>>
    /\ filtered = <<>>
    /\ fetch = <<>>
    /\ fetched = <<>>
    /\ trustMap = <<>>
    /\ enriched = <<>>
    /\ sorted = <<>>
    /\ result = <<>>
    /\ findPc = "idle"

\* the state right after the synchronous part of the call: every socket is
\* being opened and every connect timer is armed
InitCall(n) ==
    /\ now = 0
    /\ ws = [p \in 1..n |-> "connecting"]
    /\ timer = [p \in 1..n |-> {Timeout}]
    /\ opened = [p \in 1..n |-> FALSE]
    /\ status = [p \in 1..n |-> "pending"]
    /\ events = [p \in 1..n |-> <<>>]
    /\ delivered = [p \in 1..n |-> <<>>]
    /\ sent = [p \in 1..n |-> <<>>]
    /\ closeCalled = [p \in 1..n |-> FALSE]
    /\ exit = [p \in 1..n |-> ""]
    /\ reason = [p \in 1..n |-> ""]
    /\ ackId = [p \in 1..n |-> ""]
    /\ resolved = [p \in 1..n |-> <<>>]
    /\ malformed = 0
    /\ foreign = 0
    /\ late = FALSE
    /\ returned = FALSE
    /\ merged = <<>>
    /\ outcome = NoOutcome

\* no relay call is examined
NoRelayCall == InitCall(0) /\ call = "none"

QInit ==
    InitCall(NumQueryRelays) /\ call = "queryRelays" /\ TrustIdle /\ FindIdle /\ ServiceIdle

\* the history variables are not recorded
NoLog == UNCHANGED <<resolved, malformed, foreign, late>>

QNext ==
    \/ \E p \in Relays : QOpen(p)
    \/ \E p \in Relays : QConnError(p) /\ NoLog
    \/ \E p \in Relays : QConnTimeout(p) /\ NoLog
    \/ \E p \in Relays : \E m \in QueryMsgs(p) : QMessage(p, m) /\ NoLog
    \/ \E p \in Relays : QTimeout(p) /\ NoLog
    \/ \E p \in Relays : QError(p) /\ NoLog
    \/ \E p \in Relays : QClose(p) /\ NoLog
    \/ Tick

SpecQuery == QInit /\ [][QNext]_vars

\* the same call when the clock advances and a timer that is due runs its
\* callback; nothing is assumed of the relays
SpecQueryFair ==
    /\ QInit
    /\ [][QNext]_vars
    /\ WF_vars(Tick)
    /\ \A p \in 1..NumQueryRelays : WF_vars(QConnTimeout(p) /\ NoLog)
    /\ \A p \in 1..NumQueryRelays : WF_vars(QTimeout(p) /\ NoLog)

\* the same call with the history of its promises recorded: what every task
\* resolved with
LogSettle == resolved' = Resolved /\ UNCHANGED <<malformed, foreign, late>>

QLogNext ==
    \/ \E p \in Relays : QOpen(p)
    \/ \E p \in Relays : QConnError(p) /\ LogSettle
    \/ \E p \in Relays : QConnTimeout(p) /\ LogSettle
    \/ \E p \in Relays : \E m \in QueryMsgs(p) : QMessage(p, m) /\ LogSettle
    \/ \E p \in Relays : QTimeout(p) /\ LogSettle
    \/ \E p \in Relays : QError(p) /\ LogSettle
    \/ \E p \in Relays : QClose(p) /\ LogSettle
    \/ Tick

SpecQueryLog == QInit /\ [][QLogNext]_vars

\* the same call with the malformed messages recorded that a pending task
\* received; they count as messages of the run
LogMessage(p, m) ==
    /\ UNCHANGED <<resolved, foreign, late>>
    /\ IF m.type = "malformed" /\ status[p] = "pending"
       THEN /\ TotalDelivered + malformed < MaxMsgs
            /\ malformed' = malformed + 1
       ELSE /\ m.type = "EVENT" => TotalDelivered + malformed < MaxMsgs
            /\ UNCHANGED malformed

QDropNext ==
    \/ \E p \in Relays : QOpen(p)
    \/ \E p \in Relays : QConnError(p) /\ NoLog
    \/ \E p \in Relays : QConnTimeout(p) /\ NoLog
    \/ \E p \in Relays : \E m \in QueryMsgs(p) : QMessage(p, m) /\ LogMessage(p, m)
    \/ \E p \in Relays : QTimeout(p) /\ NoLog
    \/ \E p \in Relays : QError(p) /\ NoLog
    \/ \E p \in Relays : QClose(p) /\ NoLog
    \/ Tick

SpecQueryDrop == QInit /\ [][QDropNext]_vars

\* the same call with the messages of another subscription recorded that a
\* pending task received; they count as messages of the run
LogForeign(p, m) ==
    /\ UNCHANGED <<resolved, malformed, late>>
    /\ IF m.type \in {"EVENT", "EOSE"} /\ m.sub = ForeignSubId /\ status[p] = "pending"
       THEN /\ TotalDelivered + foreign < MaxMsgs
            /\ foreign' = foreign + 1
       ELSE /\ m.type = "EVENT" => TotalDelivered + foreign < MaxMsgs
            /\ UNCHANGED foreign

QSubNext ==
    \/ \E p \in Relays : QOpen(p)
    \/ \E p \in Relays : QConnError(p) /\ NoLog
    \/ \E p \in Relays : QConnTimeout(p) /\ NoLog
    \/ \E p \in Relays : \E m \in QueryMsgs(p) : QMessage(p, m) /\ LogForeign(p, m)
    \/ \E p \in Relays : QTimeout(p) /\ NoLog
    \/ \E p \in Relays : QError(p) /\ NoLog
    \/ \E p \in Relays : QClose(p) /\ NoLog
    \/ Tick

SpecQuerySub == QInit /\ [][QSubNext]_vars

-----------------------------------------------------------------------------
(* publishToRelays *)

\* the id of the event being published, and the id of some other event
PublishedId == "e1"

ForeignId == "e2"

PublishMsgs ==
    [type : {"OK"}, id : {PublishedId, ForeignId}, accept : BOOLEAN,
     text : {"", "duplicate"}]
        \cup {[type |-> "NOTICE"], [type |-> "malformed"]}

\* the messages of the errors the transport reports: the handshake got an
\* answer that is no upgrade, and an open socket was reset
ConnectErrorText == "Unexpected server response: 503"

SocketErrorText == "read ECONNRESET"

ConnectTimeoutText(p) == "Connection to " \o Url(p) \o " timed out"

PublishTimeoutText(p) == "Publish to " \o Url(p) \o " timed out"

\* new Error(msg[3] || 'Rejected by relay')
RejectText(m) == IF m.text # "" THEN m.text ELSE "Rejected by relay"

RECURSIVE FailuresFrom(_, _, _)
FailuresFrom(i, st, rs) ==
    IF i > Len(st) THEN <<>>
    ELSE (IF st[i] = "rejected" THEN <<rs[i]>> ELSE <<>>) \o FailuresFrom(i + 1, st, rs)

RECURSIVE DistinctOf(_)
DistinctOf(s) ==
    IF s = <<>> THEN <<>>
    ELSE LET r == DistinctOf(Tail(s))
         IN  IF \E i \in 1..Len(r) : r[i] = Head(s) THEN r ELSE <<Head(s)>> \o r

AggregateDistinctReasons(st, rs) ==
    [successes |-> Cardinality({p \in DOMAIN st : st[p] = "fulfilled"}),
     failures |-> DistinctOf(FailuresFrom(1, st, rs)),
     total |-> Len(st)]

\* the value publishToRelays builds from the settled tasks
Aggregate(st, rs) ==
    [successes |-> Cardinality({p \in DOMAIN st : st[p] = "fulfilled"}),
     failures |-> FailuresFrom(1, st, rs),
     total |-> Len(st)]

\* the continuation of Promise.allSettled in publishToRelays
PublishJoin(st, rs) ==
    IF \A p \in Relays : st[p] # "pending"
      THEN /\ returned' = TRUE
           /\ outcome' = Aggregate(st, rs)
      ELSE UNCHANGED <<returned, outcome>>

\* reject(new Error(text)) of a task's promise
Reject(p, text) == IF status[p] = "pending" THEN [reason EXCEPT ![p] = text] ELSE reason

\* the open handler of connectRelay and the task's body after the await
POpen(p) ==
    /\ ~returned
    /\ UNCHANGED <<call, resolved, malformed, foreign, late, trustVars, findVars,
                 serviceVars, getVars>>
    /\ ws[p] = "connecting"
    /\ ws' = [ws EXCEPT ![p] = "open"]
    /\ opened' = [opened EXCEPT ![p] = TRUE]
    /\ timer' = [timer EXCEPT ![p] = {now + Timeout}]
    /\ sent' = [sent EXCEPT ![p] = Append(@, "EVENT")]
    /\ UNCHANGED <<now, status, events, delivered, closeCalled, exit, reason, ackId,
                   returned, merged, outcome>>

\* the error handler of connectRelay while connecting
PConnError(p) ==
    /\ ~returned
    /\ UNCHANGED <<call, resolved, malformed, foreign, late, trustVars, findVars,
                 serviceVars, getVars>>
    /\ ws[p] = "connecting"
    /\ ws' = [ws EXCEPT ![p] = "closed"]
    /\ timer' = [timer EXCEPT ![p] = {}]
    /\ status' = Settle(p, "rejected")
    /\ reason' = Reject(p, ConnectErrorText)
    /\ exit' = SettledBy(p, "connect-error")
    /\ PublishJoin(status', reason')
    /\ UNCHANGED <<now, opened, events, delivered, sent, closeCalled, ackId, merged>>

\* the timer of connectRelay
PConnTimeout(p) ==
    /\ ~returned
    /\ UNCHANGED <<call, resolved, malformed, foreign, late, trustVars, findVars,
                 serviceVars, getVars>>
    /\ ~opened[p]
    /\ \E d \in timer[p] : now >= d
    /\ ws' = [ws EXCEPT ![p] = CloseWs(@)]
    /\ closeCalled' = [closeCalled EXCEPT ![p] = TRUE]
    /\ timer' = [timer EXCEPT ![p] = {}]
    /\ status' = Settle(p, "rejected")
    /\ reason' = Reject(p, ConnectTimeoutText(p))
    /\ exit' = SettledBy(p, "connect-timeout")
    /\ PublishJoin(status', reason')
    /\ UNCHANGED <<now, opened, events, delivered, sent, ackId, merged>>

\* the message handler of a publish task
PMessage(p, m) ==
    /\ ~returned
    /\ UNCHANGED <<call, resolved, malformed, foreign, trustVars, findVars, serviceVars,
                 getVars>>
    /\ opened[p]
    /\ ws[p] \in {"open", "closing"}
    /\ IF m.type = "OK"
         THEN /\ timer' = [timer EXCEPT ![p] = {}]
              /\ ws' = [ws EXCEPT ![p] = CloseWs(@)]
              /\ closeCalled' = [closeCalled EXCEPT ![p] = TRUE]
              /\ status' = Settle(p, IF m.accept THEN "fulfilled" ELSE "rejected")
              /\ reason' = IF m.accept THEN reason ELSE Reject(p, RejectText(m))
              /\ exit' = SettledBy(p, "ack")
              /\ ackId' = IF status[p] = "pending" THEN [ackId EXCEPT ![p] = m.id]
                          ELSE ackId
              /\ PublishJoin(status', reason')
         ELSE UNCHANGED <<ws, timer, status, closeCalled, exit, reason, ackId,
                          returned, outcome>>
    /\ UNCHANGED <<now, opened, events, delivered, sent, merged>>

\* the timer of a publish task
PTimeout(p) ==
    /\ ~returned
    /\ UNCHANGED <<call, resolved, malformed, foreign, late, trustVars, findVars,
                 serviceVars, getVars>>
    /\ opened[p]
    /\ \E d \in timer[p] : now >= d
    /\ timer' = [timer EXCEPT ![p] = {}]
    /\ ws' = [ws EXCEPT ![p] = CloseWs(@)]
    /\ closeCalled' = [closeCalled EXCEPT ![p] = TRUE]
    /\ status' = Settle(p, "rejected")
    /\ reason' = Reject(p, PublishTimeoutText(p))
    /\ exit' = SettledBy(p, "timeout")
    /\ PublishJoin(status', reason')
    /\ UNCHANGED <<now, opened, events, delivered, sent, ackId, merged>>

\* the error handler of a publish task; the transport drops a socket that failed
PError(p) ==
    /\ ~returned
    /\ UNCHANGED <<call, resolved, malformed, foreign, late, trustVars, findVars,
                 serviceVars, getVars>>
    /\ opened[p]
    /\ ws[p] = "open"
    /\ ws' = [ws EXCEPT ![p] = "closed"]
    /\ timer' = [timer EXCEPT ![p] = {}]
    /\ status' = Settle(p, "rejected")
    /\ reason' = Reject(p, SocketErrorText)
    /\ exit' = SettledBy(p, "error")
    /\ PublishJoin(status', reason')
    /\ UNCHANGED <<now, opened, events, delivered, sent, closeCalled, ackId, merged>>

\* the relay closes the connection: a publish task has no close handler
PClose(p) ==
    /\ ~returned
    /\ UNCHANGED <<call, resolved, malformed, foreign, late, trustVars, findVars,
                 serviceVars, getVars>>
    /\ opened[p]
    /\ ws[p] \in {"open", "closing"}
    /\ ws' = [ws EXCEPT ![p] = "closed"]
    /\ UNCHANGED <<now, timer, opened, status, events, delivered, sent, closeCalled,
                   exit, reason, ackId, returned, merged, outcome>>

PInit ==
    InitCall(NumPublishRelays) /\ call = "publishToRelays" /\ TrustIdle /\ FindIdle /\ ServiceIdle

PNext ==
    \/ \E p \in Relays : POpen(p)
    \/ \E p \in Relays : PConnError(p)
    \/ \E p \in Relays : PConnTimeout(p)
    \/ \E p \in Relays : \E m \in PublishMsgs : PMessage(p, m) /\ UNCHANGED late
    \/ \E p \in Relays : PTimeout(p)
    \/ \E p \in Relays : PError(p)
    \/ \E p \in Relays : PClose(p)
    \/ Tick

SpecPublish == PInit /\ [][PNext]_vars

\* the same call with the acknowledgments recorded that reach a task which
\* is already settled
LogLate(p, m) ==
    late' = (late \/ (m.type = "OK" /\ status[p] # "pending"))

PLateNext ==
    \/ \E p \in Relays : POpen(p)
    \/ \E p \in Relays : PConnError(p)
    \/ \E p \in Relays : PConnTimeout(p)
    \/ \E p \in Relays : \E m \in PublishMsgs : PMessage(p, m) /\ LogLate(p, m)
    \/ \E p \in Relays : PTimeout(p)
    \/ \E p \in Relays : PError(p)
    \/ \E p \in Relays : PClose(p)
    \/ Tick

SpecPublishLate == PInit /\ [][PLateNext]_vars

-----------------------------------------------------------------------------
(* either call of the relay module *)

RInit == QInit \/ PInit

\* the call made
Query == call = "queryRelays"

Publish == call = "publishToRelays"

RNext ==
    \/ \E p \in Relays : Query /\ QOpen(p)
    \/ \E p \in Relays : Query /\ QConnError(p) /\ NoLog
    \/ \E p \in Relays : Query /\ QConnTimeout(p) /\ NoLog
    \/ \E p \in Relays : \E m \in QueryMsgs(p) : Query /\ QMessage(p, m) /\ NoLog
    \/ \E p \in Relays : Query /\ QTimeout(p) /\ NoLog
    \/ \E p \in Relays : Query /\ QError(p) /\ NoLog
    \/ \E p \in Relays : Query /\ QClose(p) /\ NoLog
    \/ \E p \in Relays : Publish /\ POpen(p)
    \/ \E p \in Relays : Publish /\ PConnError(p)
    \/ \E p \in Relays : Publish /\ PConnTimeout(p)
    \/ \E p \in Relays : \E m \in PublishMsgs : Publish /\ PMessage(p, m) /\ UNCHANGED late
    \/ \E p \in Relays : Publish /\ PTimeout(p)
    \/ \E p \in Relays : Publish /\ PError(p)
    \/ \E p \in Relays : Publish /\ PClose(p)
    \/ Tick

SpecRelay == RInit /\ [][RNext]_vars

-----------------------------------------------------------------------------
(* calculateTrustScore *)

MaxAttestations == 2

\* the pubkey the score is computed for
Target == "T"

WOT_NAMESPACE == "ai.wot"

\* TRUST_WEIGHTS; a weight is kept in tenths, 1.5 is 15
TRUST_WEIGHTS ==
    ("service-quality" :> 15) @@ ("identity-continuity" :> 10)
        @@ ("general-trust" :> 8) @@ ("work-completed" :> 12)

\* property names an object literal inherits from Object.prototype: looking
\* one of them up in TRUST_WEIGHTS gives a function or an object, not undefined
InheritedKeys == {"constructor", "toString", "valueOf", "hasOwnProperty", "__proto__"}

\* TRUST_WEIGHTS[type] || 0.8, as the number the arithmetic below makes of it:
\* an inherited property is truthy and is not a number
Weight(type) ==
    IF type \in DOMAIN TRUST_WEIGHTS THEN Num(TRUST_WEIGHTS[type])
    ELSE IF type \in InheritedKeys THEN NotANumber
    ELSE Num(8)

\* the loop over event.tags: the first 'l' tag of the ai.wot namespace gives
\* the type, 'general-trust' when there is none
RECURSIVE LabelFrom(_, _)
LabelFrom(tags, i) ==
    IF i > Len(tags) THEN "general-trust"
    ELSE IF Len(tags[i]) >= 3 /\ tags[i][1] = "l" /\ tags[i][3] = WOT_NAMESPACE
         THEN tags[i][2]
         ELSE LabelFrom(tags, i + 1)

AttestationType(event) == LabelFrom(event.tags, 1)

\* the position of pubkey pk among the entries of a Map kept in insertion
\* order, 0 when the Map has no such key
IndexOf(m, pk) ==
    LET I == {i \in 1..Len(m) : m[i].pubkey = pk}
    IN  IF I = {} THEN 0 ELSE CHOOSE i \in I : TRUE

AttesterStepCountsSelf(m, event, targetPubkey) ==
    LET type == AttestationType(event)
        weight == Weight(type)
        entry == [pubkey |-> event.pubkey, weight |-> weight, type |-> type,
                  createdAt |-> event.created_at]
        i == IndexOf(m, event.pubkey)
    IN  IF i = 0 THEN Append(m, entry)
        ELSE IF Greater(weight, m[i].weight) THEN [m EXCEPT ![i] = entry] ELSE m

\* one iteration of the loop over the attestations; m is the attesters Map
AttesterStep(m, event, targetPubkey) ==
    IF event.pubkey = targetPubkey THEN m
    ELSE LET type == AttestationType(event)
             weight == Weight(type)
             entry == [pubkey |-> event.pubkey, weight |-> weight, type |-> type,
                       createdAt |-> event.created_at]
             i == IndexOf(m, event.pubkey)
         IN  IF i = 0 THEN Append(m, entry)
             ELSE IF Greater(weight, m[i].weight) THEN [m EXCEPT ![i] = entry]
             ELSE m

RECURSIVE AttestersFrom(_, _, _, _)
AttestersFrom(m, atts, i, targetPubkey) ==
    IF i > Len(atts) THEN m
    ELSE AttestersFrom(AttesterStep(m, atts[i], targetPubkey), atts, i + 1,
                       targetPubkey)

\* att.weight * 10, in tenths
TimesTen(w) == IF w.nan THEN NotANumber ELSE Num(w.n * 10)

\* score += att.weight * 10 over the values of the Map, in tenths
RECURSIVE ScoreFrom(_, _)
ScoreFrom(m, i) ==
    IF i > Len(m) THEN Num(0)
    ELSE Plus(TimesTen(m[i].weight), ScoreFrom(m, i + 1))

\* Math.round of a number of tenths: the nearest integer, halves upwards
MathRound(t) == IF t.nan THEN NotANumber ELSE Num((t.n + 5) \div 10)

CalculateTrustScore(atts, targetPubkey) ==
    LET m == AttestersFrom(<<>>, atts, 1, targetPubkey)
    IN  [score |-> MathRound(ScoreFrom(m, 1)),
         attesters |-> Len(m),
         details |-> [i \in 1..Len(m) |->
                         [pubkey |-> m[i].pubkey, type |-> m[i].type,
                          weight |-> m[i].weight]]]

\* attestation events as fetchAttestations returns them: kind 1985 events that
\* verify, labelled in some namespace, about the target
AttestationTags(labels) ==
    <<<<"L", WOT_NAMESPACE>>>> \o labels \o <<<<"p", Target>>>>

Label(type) == <<"l", type, WOT_NAMESPACE>>

ForeignLabel(type) == <<"l", type, "org.example">>

LabelLists ==
    {<<>>,
     <<Label("service-quality")>>, <<Label("work-completed")>>,
     <<Label("identity-continuity")>>, <<Label("general-trust")>>,
     <<Label("endorsement")>>, <<Label("constructor")>>,
     <<ForeignLabel("service-quality")>>,
     <<ForeignLabel("service-quality"), Label("work-completed")>>}

CreatedAts == {1, 2}

AttestationEvents ==
    [pubkey : {"A", "B", Target},
     tags : {AttestationTags(l) : l \in LabelLists},
     created_at : CreatedAts]

Attestation(pk, type) ==
    [pubkey |-> pk, tags |-> AttestationTags(<<Label(type)>>), created_at |-> 1]

\* A vouches for service quality, B in general, C for completed work, and the
\* target vouches for itself
ExampleAttestations ==
    <<Attestation("A", "service-quality"), Attestation("B", "general-trust"),
      Attestation("C", "work-completed"), Attestation(Target, "service-quality")>>

SeqsUpTo(S, n) == UNION {[1..k -> S] : k \in 0..n}

\* calculateTrustScore(attestations, Target)
Calculate ==
    /\ ~scored
    /\ trust' = CalculateTrustScore(attestations, Target)
    /\ scored' = TRUE
    /\ UNCHANGED <<attestations, relayVars, findVars, serviceVars, getVars>>

TInit ==
    /\ NoRelayCall
    /\ FindIdle
    /\ ServiceIdle
    /\ attestations \in
          SeqsUpTo(AttestationEvents, MaxAttestations) \cup {ExampleAttestations}
    /\ trust = ZeroTrust
    /\ scored = FALSE

TNext == Calculate

SpecTrust == TInit /\ [][TNext]_vars

-----------------------------------------------------------------------------
(* parseServiceEvent *)

SERVICE_KIND == 38990

\* parseInt(s, 10) of the amounts that occur
DecimalStrings == ("0" :> 0) @@ ("1" :> 1) @@ ("2" :> 2) @@ ("3" :> 3)

ParseInt(s) == IF s \in DOMAIN DecimalStrings THEN Num(DecimalStrings[s]) ELSE NotANumber

\* tag[i] || dflt, for the JavaScript index i
TagOr(tag, i, dflt) == IF Len(tag) > i /\ tag[i + 1] # "" THEN tag[i + 1] ELSE dflt

\* the service object before the tags are read; null is <<>> and a value v
\* is <<v>>; trust and trustScore are the properties enrichWithTrust adds
\* (the property raw, the event itself, is left out)
NewService(event) ==
    [pubkey |-> event.pubkey, eventId |-> event.id, createdAt |-> event.created_at,
     id |-> <<>>, name |-> <<>>, capabilities |-> <<>>, price |-> <<>>,
     lnAddress |-> <<>>, status |-> "active", description |-> event.content,
     hashtags |-> <<>>, dvmKinds |-> <<>>, trust |-> <<>>, trustScore |-> <<>>]

\* the switch on tag[0]; every tag of the events modelled carries a value
ParseTag(service, tag) ==
    CASE tag[1] = "d" -> [service EXCEPT !.id = <<tag[2]>>]
      [] tag[1] = "c" -> [service EXCEPT !.capabilities = Append(@, tag[2])]
      [] tag[1] = "price" ->
            [service EXCEPT !.price = <<[amount |-> ParseInt(tag[2]),
                                         currency |-> TagOr(tag, 2, "sats"),
                                         per |-> TagOr(tag, 3, "request")]>>]
      [] tag[1] = "ln" -> [service EXCEPT !.lnAddress = <<tag[2]>>]
      [] tag[1] = "status" -> [service EXCEPT !.status = tag[2]]
      [] tag[1] = "name" -> [service EXCEPT !.name = <<tag[2]>>]
      [] tag[1] = "t" -> [service EXCEPT !.hashtags = Append(@, tag[2])]
      [] tag[1] = "k" -> [service EXCEPT !.dvmKinds = Append(@, tag[2])]
      [] OTHER -> service

RECURSIVE ParseTagsFrom(_, _, _)
ParseTagsFrom(service, tags, i) ==
    IF i > Len(tags) THEN service
    ELSE ParseTagsFrom(ParseTag(service, tags[i]), tags, i + 1)

ParseServiceEvent(event) == ParseTagsFrom(NewService(event), event.tags, 1)

-----------------------------------------------------------------------------
(* findServices and enrichWithTrust *)

MaxEvents == 3

MaxServices == 2

\* events.map(parseServiceEvent)
ParseAll(evts) == [i \in 1..Len(evts) |-> ParseServiceEvent(evts[i])]

\* `${svc.pubkey}:${svc.id}`
Key(svc) == svc.pubkey \o ":" \o (IF svc.id = <<>> THEN "null" ELSE svc.id[1])

\* the position of a key among the entries of the Map latest, 0 when absent
KeyIndex(m, key) ==
    LET I == {i \in 1..Len(m) : m[i].key = key}
    IN  IF I = {} THEN 0 ELSE CHOOSE i \in I : TRUE

\* latest.set(key, svc): a new key goes to the end, a key already there
\* keeps its place
MapSet(m, key, svc) ==
    IF KeyIndex(m, key) = 0 THEN Append(m, [key |-> key, value |-> svc])
    ELSE [m EXCEPT ![KeyIndex(m, key)] = [key |-> key, value |-> svc]]

LatestStepKeepFirst(m, svc) ==
    IF KeyIndex(m, Key(svc)) = 0 THEN MapSet(m, Key(svc), svc) ELSE m

LatestStepKeepLast(m, svc) == MapSet(m, Key(svc), svc)

\* one iteration of the loop that keeps the latest service of every key
LatestStep(m, svc) ==
    LET i == KeyIndex(m, Key(svc))
    IN  IF i = 0 \/ svc.createdAt > m[i].value.createdAt
        THEN MapSet(m, Key(svc), svc)
        ELSE m

RECURSIVE LatestFrom(_, _, _)
LatestFrom(m, services, i) ==
    IF i > Len(services) THEN m
    ELSE LatestFrom(LatestStep(m, services[i]), services, i + 1)

MapValuesReversed(m) == [i \in 1..Len(m) |-> m[Len(m) + 1 - i].value]

\* Array.from(latest.values())
MapValues(m) == [i \in 1..Len(m) |-> m[i].value]

\* lines 61 to 70 of findServices
LatestPerKey(services) == MapValues(LatestFrom(<<>>, services, 1))

\* the options after destructuring with the defaults
StatusOf(o) == IF o.status = <<>> THEN "active" ELSE o.status[1]

IncludeTrustOf(o) == o.includeTrust = <<TRUE>>

\* if (status) services = services.filter(s => s.status === status)
StatusFilter(services, st) ==
    IF st # "" THEN SelectSeq(services, LAMBDA s : s.status = st) ELSE services

PriceFilterDropsUnpriced(services, maxPrice) ==
    IF maxPrice # <<>>
    THEN SelectSeq(services, LAMBDA s :
             s.price # <<>> /\ LessEq(s.price[1].amount, Num(maxPrice[1])))
    ELSE services

\* if (maxPrice !== undefined) services = services.filter(...)
PriceFilter(services, maxPrice) ==
    IF maxPrice # <<>>
    THEN SelectSeq(services, LAMBDA s :
             s.price = <<>> \/ LessEq(s.price[1].amount, Num(maxPrice[1])))
    ELSE services

\* if (minTrust !== undefined) services = services.filter(...); the
\* comparison of undefined with a number is false
TrustFilter(services, minTrust) ==
    IF minTrust # <<>>
    THEN SelectSeq(services, LAMBDA s :
             s.trustScore # <<>> /\ GreaterEq(s.trustScore[1], Num(minTrust[1])))
    ELSE services

\* (s.trustScore || 0): undefined, NaN and 0 give 0
ScoreOrZero(s) ==
    IF s.trustScore = <<>> \/ s.trustScore[1].nan THEN 0 ELSE s.trustScore[1].n

CompareDateOnly(a, b) == b.createdAt - a.createdAt

\* the comparator of the sort
Compare(a, b) ==
    LET trustDiff == ScoreOrZero(b) - ScoreOrZero(a)
    IN  IF trustDiff # 0 THEN trustDiff ELSE b.createdAt - a.createdAt

\* Array.prototype.sort is stable: an element goes in front of the first
\* element the comparator orders after it
InsertSorted(s, e) ==
    LET P == {i \in 1..Len(s) : Compare(s[i], e) > 0}
        k == IF P = {} THEN Len(s) + 1 ELSE CHOOSE i \in P : \A j \in P : i <= j
    IN  SubSeq(s, 1, k - 1) \o <<e>> \o SubSeq(s, k, Len(s))

RECURSIVE SortFrom(_, _, _)
SortFrom(acc, services, i) ==
    IF i > Len(services) THEN acc
    ELSE SortFrom(InsertSorted(acc, services[i]), services, i + 1)

SortServices(services) == SortFrom(<<>>, services, 1)

\* services.slice(0, n): a negative n counts from the end
Slice(services, n) ==
    IF n >= 0 THEN SubSeq(services, 1, IF n < Len(services) THEN n ELSE Len(services))
    ELSE SubSeq(services, 1, IF Len(services) + n > 0 THEN Len(services) + n ELSE 0)

\* if (limit) services = services.slice(0, limit)
Limit(services, limit) ==
    IF limit # <<>> /\ limit[1] # 0 THEN Slice(services, limit[1]) ELSE services

\* [...new Set(services.map(s => s.pubkey))]
Pubkeys(services) == {services[i].pubkey : i \in 1..Len(services)}

EnrichValueOmitsUnresolved(services, tm) ==
    LET known == SelectSeq(services, LAMBDA s : s.pubkey \in DOMAIN tm)
    IN  [i \in 1..Len(known) |->
            [known[i] EXCEPT !.trust = <<tm[known[i].pubkey]>>,
                             !.trustScore = <<tm[known[i].pubkey].score>>]]

\* the value enrichWithTrust returns once every task is settled
EnrichValue(services, tm) ==
    [i \in 1..Len(services) |->
        LET t == IF services[i].pubkey \in DOMAIN tm THEN tm[services[i].pubkey]
                 ELSE ZeroTrust
        IN  [services[i] EXCEPT !.trust = <<t>>, !.trustScore = <<t.score>>]]

\* findServices from the trust filter to the return
Finish(services) ==
    /\ sorted' = SortServices(TrustFilter(services, opts.minTrust))
    /\ result' = Limit(sorted', opts.limit)
    /\ findPc' = "done"

\* queryRelays has returned the events: findServices runs to the return, or
\* to the await of enrichWithTrust, which has started one task per owner
FindQueried ==
    /\ findPc = "querying"
    /\ latest' = LatestPerKey(ParseAll(queried))
    /\ filtered' = PriceFilter(StatusFilter(latest', StatusOf(opts)), opts.maxPrice)
    /\ IF IncludeTrustOf(opts) \/ opts.minTrust # <<>>
       THEN IF Pubkeys(filtered') = {}
            THEN /\ enriched' = EnrichValue(filtered', trustMap)
                 /\ Finish(enriched')
                 /\ UNCHANGED <<fetch, fetched, trustMap>>
            ELSE /\ fetch' = [pk \in Pubkeys(filtered') |-> "pending"]
                 /\ findPc' = "enriching"
                 /\ UNCHANGED <<fetched, trustMap, enriched, sorted, result>>
       ELSE /\ Finish(filtered')
            /\ UNCHANGED <<fetch, fetched, trustMap, enriched>>
    /\ UNCHANGED <<queried, opts, relayVars, trustVars, serviceVars, getVars>>

\* the continuation of Promise.allSettled in enrichWithTrust and the rest of
\* findServices, run by the task that settles last
EnrichJoin(f, tm) ==
    IF \A pk \in DOMAIN f : f[pk] # "pending"
    THEN /\ enriched' = EnrichValue(filtered, tm)
         /\ Finish(enriched')
    ELSE UNCHANGED <<enriched, sorted, result, findPc>>

\* the task of owner pk: fetchAttestations returned atts
FetchSettled(pk, atts) ==
    /\ findPc = "enriching"
    /\ fetch[pk] = "pending"
    /\ fetched' = fetched @@ (pk :> atts)
    /\ trustMap' = trustMap @@ (pk :> CalculateTrustScore(atts, pk))
    /\ fetch' = [fetch EXCEPT ![pk] = "fulfilled"]
    /\ EnrichJoin(fetch', trustMap')
    /\ UNCHANGED <<queried, opts, latest, filtered, relayVars, trustVars, serviceVars,
                   getVars>>

\* a rejected task that takes the entries of the other owners with it
FetchFailedClearsMap(pk) ==
    /\ findPc = "enriching"
    /\ fetch[pk] = "pending"
    /\ fetch' = [fetch EXCEPT ![pk] = "rejected"]
    /\ trustMap' = <<>>
    /\ EnrichJoin(fetch', trustMap')
    /\ UNCHANGED <<queried, opts, latest, filtered, fetched, relayVars, trustVars,
                   serviceVars, getVars>>

\* the task of owner pk threw: it is rejected and trustMap gets no entry
FetchFailed(pk) ==
    /\ findPc = "enriching"
    /\ fetch[pk] = "pending"
    /\ fetch' = [fetch EXCEPT ![pk] = "rejected"]
    /\ EnrichJoin(fetch', trustMap)
    /\ UNCHANGED <<queried, opts, latest, filtered, fetched, trustMap, relayVars,
                   trustVars, serviceVars, getVars>>

\* service announcements as queryRelays returns them: events of the kind
\* asked for that verify, with one d tag each
Event(id, pk, t, tags) ==
    [id |-> id, pubkey |-> pk, created_at |-> t, kind |-> SERVICE_KIND,
     content |-> "", tags |-> tags]

\* two owners with two services each, two events for every creation time
IdentityEvents ==
    {Event(pk \o d \o ToString(t) \o "v" \o ToString(v), pk, t, <<<<"d", d>>>>) :
        pk \in {"A", "B"}, d \in {"x", "y"}, t \in CreatedAts, v \in {1, 2}}

StatusTags == {<<>>, <<<<"status", "inactive">>>>}

PriceTags == {<<>>, <<<<"price", "1">>>>, <<<<"price", "3", "sats", "request">>>>}

\* one owner, services with and without a status and a price
FilterEvents ==
    {Event("A" \o d \o ToString(t) \o (IF st = <<>> THEN "a" ELSE "i")
               \o (IF pr = <<>> THEN "p" ELSE pr[1][2]),
           "A", t, <<<<"d", d>>>> \o st \o pr) :
        d \in {"x", "y"}, t \in CreatedAts, st \in StatusTags, pr \in PriceTags}

SortEvents == {e \in IdentityEvents : \E pk \in {"A", "B"}, d \in {"x", "y"}, t \in CreatedAts :
                                         e.id = pk \o d \o ToString(t) \o "v1"}

FilterOptions ==
    [status : {<<>>, <<"active">>, <<"inactive">>}, maxPrice : {<<>>, <<2>>},
     minTrust : {<<>>}, includeTrust : {<<>>}, limit : {<<>>, <<0>>, <<1>>}]

TrustOptions ==
    [status : {<<>>}, maxPrice : {<<>>}, minTrust : {<<>>, <<10>>},
     includeTrust : {<<>>, <<FALSE>>, <<TRUE>>}, limit : {<<>>}]

\* what fetchAttestations can return for owner pk: nothing, an attestation by
\* C of one type or another, and an attestation by owner A
AttestationBy(attester, type, pk) ==
    [pubkey |-> attester,
     tags |-> <<<<"L", WOT_NAMESPACE>>, Label(type), <<"p", pk>>>>,
     created_at |-> 1]

FetchedLists(pk) ==
    {<<>>,
     <<AttestationBy("C", "general-trust", pk)>>,
     <<AttestationBy("C", "service-quality", pk)>>,
     <<AttestationBy("C", "constructor", pk)>>,
     <<AttestationBy("A", "service-quality", pk)>>}

DistinctSeqs(S, n) ==
    {q \in SeqsUpTo(S, n) : \A i, j \in 1..Len(q) : i # j => q[i] # q[j]}

FInit ==
    /\ NoRelayCall
    /\ TrustIdle
    /\ ServiceIdle
    /\ \/ queried \in DistinctSeqs(IdentityEvents, MaxEvents) /\ opts = NoOptions
       \/ queried \in DistinctSeqs(FilterEvents, MaxServices) /\ opts \in FilterOptions
       \/ queried \in DistinctSeqs(SortEvents, MaxServices) /\ opts \in TrustOptions
    /\ latest = <<>>
    /\ filtered = <<>>
    /\ fetch = <<>>
    /\ fetched = <<>>
    /\ trustMap = <<>>
    /\ enriched = <<>>
    /\ sorted = <<>>
    /\ result = <<>>
    /\ findPc = "querying"

FNext ==
    \/ FindQueried
    \/ \E pk \in DOMAIN fetch : \E atts \in FetchedLists(pk) : FetchSettled(pk, atts)
    \/ \E pk \in DOMAIN fetch : FetchFailed(pk)

SpecFind == FInit /\ [][FNext]_vars

-----------------------------------------------------------------------------
(* findServices on top of queryRelays *)

\* two versions of one service of one owner, announced in the same second,
\* as signed records
TieRecords ==
    {Event("Ax2v" \o ToString(v), "A", 2, <<<<"d", "x">>, <<"name", "v" \o ToString(v)>>>>)
        @@ [valid |-> TRUE] : v \in {1, 2}}

\* what relay p may send on the subscription of the query
TieMsgs(p) ==
    [type : {"EVENT"}, sub : {SubId(p)}, event : TieRecords]
        \cup {[type |-> "EOSE", sub |-> SubId(p)]}

\* await queryRelays(filter, relays, timeoutMs) in findServices returns
FindAwaited ==
    /\ returned
    /\ findPc = "idle"
    /\ queried' = merged
    /\ findPc' = "querying"
    /\ UNCHANGED <<opts, latest, filtered, fetch, fetched, trustMap, enriched, sorted,
                   result, relayVars, trustVars, serviceVars, getVars>>

\* findServices() with the relay tasks of its query and what every task
\* resolved with
TieNext ==
    \/ \E p \in Relays : QOpen(p)
    \/ \E p \in Relays : QConnError(p) /\ LogSettle
    \/ \E p \in Relays : QConnTimeout(p) /\ LogSettle
    \/ \E p \in Relays : \E m \in TieMsgs(p) : QMessage(p, m) /\ LogSettle
    \/ \E p \in Relays : QTimeout(p) /\ LogSettle
    \/ \E p \in Relays : QError(p) /\ LogSettle
    \/ \E p \in Relays : QClose(p) /\ LogSettle
    \/ Tick
    \/ FindAwaited
    \/ FindQueried

SpecTie == QInit /\ [][TieNext]_vars

-----------------------------------------------------------------------------
(* buildServiceTags, publishService and removeService *)

MaxClock == 2

\* the truth value of an optional string: undefined and '' are falsy
Truthy(o) == o # <<>> /\ o[1] # ""

\* one tag per element of an optional array
TagsOf(name, o) == IF o = <<>> THEN <<>> ELSE [i \in 1..Len(o[1]) |-> <<name, o[1][i]>>]

\* ['price', String(amount)] with the currency and the unit pushed when given
PriceTagOf(price) ==
    <<"price", ToString(price.amount)>>
        \o (IF Truthy(price.currency) THEN <<price.currency[1]>> ELSE <<>>)
        \o (IF Truthy(price.per) THEN <<price.per[1]>> ELSE <<>>)

BuildServiceTagsAutoFirst(o) ==
    <<<<"d", o.id>>, <<"t", "agent">>, <<"t", "service">>>>
        \o (IF Truthy(o.name) THEN <<<<"name", o.name[1]>>>> ELSE <<>>)
        \o TagsOf("c", o.capabilities)
        \o (IF o.price # <<>> THEN <<PriceTagOf(o.price[1])>> ELSE <<>>)
        \o (IF Truthy(o.lnAddress) THEN <<<<"ln", o.lnAddress[1]>>>> ELSE <<>>)
        \o <<<<"status", IF Truthy(o.status) THEN o.status[1] ELSE "active">>>>
        \o TagsOf("k", o.dvmKinds)
        \o TagsOf("t", o.hashtags)

BuildServiceTags(o) ==
    <<<<"d", o.id>>>>
        \o (IF Truthy(o.name) THEN <<<<"name", o.name[1]>>>> ELSE <<>>)
        \o TagsOf("c", o.capabilities)
        \o (IF o.price # <<>> THEN <<PriceTagOf(o.price[1])>> ELSE <<>>)
        \o (IF Truthy(o.lnAddress) THEN <<<<"ln", o.lnAddress[1]>>>> ELSE <<>>)
        \o <<<<"status", IF Truthy(o.status) THEN o.status[1] ELSE "active">>>>
        \o TagsOf("k", o.dvmKinds)
        \o TagsOf("t", o.hashtags)
        \o <<<<"t", "agent">>, <<"t", "service">>>>

\* the pubkey of the secret key the owner signs with
Owner == "A"

\* finalizeEvent: the id is a hash of the fields, here their serialization
FinalizeEvent(kind, t, tags, content) ==
    [id |-> ToString(<<kind, t, tags, content>>), pubkey |-> Owner, created_at |-> t,
     kind |-> kind, content |-> content, tags |-> tags]

\* prices in sats and in another currency, with and without the optional parts
Prices ==
    {[amount |-> 3, currency |-> <<"usd">>, per |-> <<"query">>],
     [amount |-> 0, currency |-> <<"sats">>, per |-> <<"request">>],
     [amount |-> 3, currency |-> <<"usd">>, per |-> <<>>],
     [amount |-> 3, currency |-> <<>>, per |-> <<>>]}

Definitions ==
    [id : {"svc"},
     name : {<<>>, <<"Agent">>},
     capabilities : {<<>>, <<<<"research", "analysis">>>>},
     price : {<<>>} \cup {<<pr>> : pr \in Prices},
     lnAddress : {<<>>, <<"agent@example.com">>},
     status : {<<>>, <<"active">>, <<"inactive">>},
     dvmKinds : {<<>>, <<<<"5050", "5300">>>>},
     hashtags : {<<>>, <<<<"research">>>>},
     description : {""}]

\* Math.floor(Date.now() / 1000) moves on
ClockTick ==
    /\ clock < MaxClock
    /\ clock' = clock + 1
    /\ UNCHANGED <<definition, announced, relayVars, trustVars, findVars, getVars>>

\* publishService(definition, secretKey) up to the event it hands to
\* publishToRelays
PublishService ==
    /\ announced = <<>>
    /\ announced' = <<FinalizeEvent(SERVICE_KIND, clock, BuildServiceTags(definition),
                                   definition.description)>>
    /\ UNCHANGED <<clock, definition, relayVars, trustVars, findVars, getVars>>

\* removeService(definition.id, secretKey), called after publishService has
\* returned
RemoveService ==
    /\ Len(announced) = 1
    /\ announced' = Append(announced,
                           FinalizeEvent(SERVICE_KIND, clock,
                                         <<<<"d", definition.id>>, <<"status", "inactive">>>>,
                                         ""))
    /\ UNCHANGED <<clock, definition, relayVars, trustVars, findVars, getVars>>

\* findServices() is called and queryRelays returns some of the announced
\* events, in the order the relay list and the relays give them
FindCall ==
    /\ findPc = "idle"
    /\ announced # <<>>
    /\ queried' \in DistinctSeqs({announced[i] : i \in 1..Len(announced)}, Len(announced))
    /\ findPc' = "querying"
    /\ UNCHANGED <<opts, latest, filtered, fetch, fetched, trustMap, enriched, sorted,
                   result, relayVars, trustVars, serviceVars, getVars>>

SInit ==
    /\ NoRelayCall
    /\ TrustIdle
    /\ FindIdle
    /\ clock = 0
    /\ definition \in Definitions
    /\ announced = <<>>
    /\ getPc = "idle"
    /\ got = <<>>

SNext ==
    \/ ClockTick
    \/ PublishService
    \/ RemoveService
    \/ FindCall
    \/ FindQueried

SpecService == SInit /\ [][SNext]_vars

-----------------------------------------------------------------------------
(* getService *)

\* includeTrust = true unless the caller gives another value
GetIncludeTrust(o) == o.includeTrust # <<FALSE>>

InsertOldestFirst(s, e) ==
    LET P == {i \in 1..Len(s) : s[i].created_at - e.created_at > 0}
        k == IF P = {} THEN Len(s) + 1 ELSE CHOOSE i \in P : \A j \in P : i <= j
    IN  SubSeq(s, 1, k - 1) \o <<e>> \o SubSeq(s, k, Len(s))

\* where the stable sort with (a, b) => b.created_at - a.created_at puts e
InsertNewestFirst(s, e) ==
    LET P == {i \in 1..Len(s) : e.created_at - s[i].created_at > 0}
        k == IF P = {} THEN Len(s) + 1 ELSE CHOOSE i \in P : \A j \in P : i <= j
    IN  SubSeq(s, 1, k - 1) \o <<e>> \o SubSeq(s, k, Len(s))

RECURSIVE SortNewestFrom(_, _, _)
SortNewestFrom(acc, evs, i) ==
    IF i > Len(evs) THEN acc
    ELSE SortNewestFrom(InsertNewestFirst(acc, evs[i]), evs, i + 1)

\* events.sort((a, b) => b.created_at - a.created_at)
SortNewestFirst(evs) == SortNewestFrom(<<>>, evs, 1)

\* queryRelays has returned the events: getService returns null, or parses
\* the first event after the sort and returns it, or awaits enrichWithTrust,
\* which has started the task of the owner
GetQueried ==
    /\ getPc = "querying"
    /\ IF Len(queried) = 0
       THEN /\ got' = <<>>
            /\ getPc' = "done"
            /\ UNCHANGED <<filtered, fetch>>
       ELSE /\ filtered' = <<ParseServiceEvent(SortNewestFirst(queried)[1])>>
            /\ IF GetIncludeTrust(opts)
               THEN /\ fetch' = [pk \in Pubkeys(filtered') |-> "pending"]
                    /\ getPc' = "enriching"
                    /\ UNCHANGED got
               ELSE /\ got' = <<filtered'[1]>>
                    /\ getPc' = "done"
                    /\ UNCHANGED fetch
    /\ UNCHANGED <<queried, opts, latest, fetched, trustMap, enriched, sorted, result,
                   findPc, relayVars, trustVars, serviceVars>>

\* the task of the owner in enrichWithTrust([service]): fetchAttestations
\* returned atts, and getService returns enriched[0]
GetFetchSettled(pk, atts) ==
    /\ getPc = "enriching"
    /\ fetch[pk] = "pending"
    /\ fetched' = fetched @@ (pk :> atts)
    /\ trustMap' = trustMap @@ (pk :> CalculateTrustScore(atts, pk))
    /\ fetch' = [fetch EXCEPT ![pk] = "fulfilled"]
    /\ enriched' = EnrichValue(filtered, trustMap')
    /\ got' = <<enriched'[1]>>
    /\ getPc' = "done"
    /\ UNCHANGED <<queried, opts, latest, filtered, sorted, result, findPc, relayVars,
                   trustVars, serviceVars>>

\* the task of the owner threw: the service gets the zero trust
GetFetchFailed(pk) ==
    /\ getPc = "enriching"
    /\ fetch[pk] = "pending"
    /\ fetch' = [fetch EXCEPT ![pk] = "rejected"]
    /\ enriched' = EnrichValue(filtered, trustMap)
    /\ got' = <<enriched'[1]>>
    /\ getPc' = "done"
    /\ UNCHANGED <<queried, opts, latest, filtered, fetched, trustMap, sorted, result,
                   findPc, relayVars, trustVars, serviceVars>>

\* the versions of one service of one owner that the relays may hold
GetEvents ==
    {Event("Ax" \o ToString(t) \o "v" \o ToString(v), "A", t,
           <<<<"d", "x">>, <<"name", "v" \o ToString(v)>>>> \o st) :
        t \in CreatedAts, v \in {1, 2}, st \in StatusTags}

GetOptions == {[NoOptions EXCEPT !.includeTrust = i] : i \in {<<>>, <<FALSE>>, <<TRUE>>}}

GInit ==
    /\ NoRelayCall
    /\ TrustIdle
    /\ clock = 0
    /\ definition = <<>>
    /\ announced = <<>>
    /\ queried \in DistinctSeqs(GetEvents, MaxEvents)
    /\ opts \in GetOptions
    /\ latest = <<>>
    /\ filtered = <<>>
    /\ fetch = <<>>
    /\ fetched = <<>>
    /\ trustMap = <<>>
    /\ enriched = <<>>
    /\ sorted = <<>>
    /\ result = <<>>
    /\ findPc = "idle"
    /\ getPc = "querying"
    /\ got = <<>>

GNext ==
    \/ GetQueried
    \/ \E pk \in DOMAIN fetch : \E atts \in FetchedLists(pk) : GetFetchSettled(pk, atts)
    \/ \E pk \in DOMAIN fetch : GetFetchFailed(pk)

SpecGet == GInit /\ [][GNext]_vars

-----------------------------------------------------------------------------
(* Properties of queryRelays *)

RECURSIVE ConcatUpTo(_, _)
ConcatUpTo(f, n) == IF n = 0 THEN <<>> ELSE ConcatUpTo(f, n - 1) \o f[n]

\* what the relay tasks collected, in relay order
Collected == ConcatUpTo(events, Cardinality(Relays))

Ids(s) == {s[i].id : i \in 1..Len(s)}

Range(s) == {s[i] : i \in 1..Len(s)}

\* the positions of s that hold the first record of their id
FirstPositions(s) == {i \in 1..Len(s) : \A j \in 1..(i - 1) : s[j].id # s[i].id}

\* C1: the sequence returned by queryRelays never holds two records with the
\* same id; of the records collected, in relay order, exactly the first of
\* each id is kept, in that order.
C1_DedupFirstWins ==
    returned =>
        LET K == FirstPositions(Collected) IN
        /\ \A i, j \in 1..Len(merged) : i # j => merged[i].id # merged[j].id
        /\ Len(merged) = Cardinality(K)
        /\ \A k \in K : merged[Cardinality({j \in K : j <= k})] = Collected[k]

\* two relays delivered a record with the same id, and one relay delivered a
\* record twice or two relays delivered the same one
C1_Witness ==
    /\ returned
    /\ \E p, q \in Relays : p # q /\ Ids(events[p]) \cap Ids(events[q]) # {}
    /\ Len(merged) < Len(Collected)

\* C2: when the relays that were reached delivered only validly signed
\* records and no record came from two relays, queryRelays returns exactly
\* the union of what they delivered, and as many records as the relays'
\* contributions count together, whatever the order of the callbacks.
RECURSIVE SumCard(_, _)
SumCard(f, n) == IF n = 0 THEN 0 ELSE Cardinality(Range(f[n])) + SumCard(f, n - 1)

DisjointValidContributions ==
    /\ \A p \in Relays : \A i \in 1..Len(delivered[p]) : VerifyEvent(delivered[p][i])
    /\ \A p, q \in Relays : p # q => Range(delivered[p]) \cap Range(delivered[q]) = {}

C3_FailuresContained ==
    returned =>
        /\ \A p \in Relays : status[p] = "fulfilled"
        /\ \A p \in Relays : ~opened[p] => events[p] = <<>>
        /\ Ids(merged) = UNION {Ids(events[p]) : p \in {q \in Relays : opened[q]}}
        /\ (\A p \in Relays : ~opened[p]) => merged = <<>>

\* one relay was never reached, another one's records are returned
C3_Witness ==
    /\ returned
    /\ \E p \in Relays : ~opened[p] /\ exit[p] \in {"connect-error", "connect-timeout"}
    /\ merged # <<>>

\* C4: every record a relay task collected, and every record returned, has
\* passed signature verification.
C4_OnlyVerified ==
    /\ \A p \in Relays : \A i \in 1..Len(events[p]) : VerifyEvent(events[p][i])
    /\ \A i \in 1..Len(merged) : VerifyEvent(merged[i])

\* a relay sent a record whose signature does not verify, and the call
\* returned records
C4_Witness ==
    /\ returned
    /\ \E p \in Relays : \E i \in 1..Len(delivered[p]) : ~VerifyEvent(delivered[p][i])
    /\ merged # <<>>

\* C5: when a relay that was reached never answers, so that its task ends by
\* the timer, queryRelays has returned within timeout of the start of the call
\* (connection setup and the wait for query-complete together do not exceed
\* timeout).
C5_ReturnsWithinTimeout ==
    (returned /\ \E p \in Relays : exit[p] = "timeout") => now <= Timeout

\* C10: every connection the call opened has been closed by the call when the
\* peer task ended by query-complete, timeout or transport error, and no timer
\* is pending when the call returns.
C10_ClosedOnEveryExit ==
    returned =>
        /\ \A p \in Relays :
              (opened[p] /\ exit[p] \in {"eose", "ack", "timeout", "error"})
                  => closeCalled[p]
        /\ \A p \in Relays : timer[p] = {}

\* the messages of one type among those sent to relay p; every message of
\* the task carries the task's subscription id SubId(p)
SentOf(p, type) == {i \in 1..Len(sent[p]) : sent[p][i] = type}

\* C11: every relay that was sent the REQ of the query has been sent a CLOSE
\* of the same subscription once its task ended, by query-complete and also
\* by the deadline firing before query-complete.
C11_CloseAfterReq ==
    \A p \in Relays :
        (SentOf(p, "REQ") # {} /\ exit[p] \in {"eose", "timeout"})
            => SentOf(p, "CLOSE") # {}

-----------------------------------------------------------------------------
(* Properties of publishToRelays *)

\* the relays whose task ended with an accepting acknowledgment of the
\* published event
AcceptedBy ==
    {p \in Relays : exit[p] = "ack" /\ ackId[p] = PublishedId /\ status[p] = "fulfilled"}

\* the reason the outcome should give for a relay that did not accept: the
\* relay's reason for a reject, the error text for a failed connection or
\* socket, the timeout reason when no acknowledgment of the event arrived
ExpectedReason(p) ==
    IF exit[p] = "ack" /\ ackId[p] # PublishedId THEN PublishTimeoutText(p)
    ELSE reason[p]

RECURSIVE ExpectedFailures(_)
ExpectedFailures(i) ==
    IF i > Cardinality(Relays) THEN <<>>
    ELSE (IF i \in AcceptedBy THEN <<>> ELSE <<ExpectedReason(i)>>)
             \o ExpectedFailures(i + 1)

\* C6: publishToRelays returns successes = the number of relays that
\* acknowledged the event with accept, failures = one reason for every other
\* relay, in relay order, and total = the number of relays.
C6_PublishOutcome ==
    returned =>
        /\ outcome.successes = Cardinality(AcceptedBy)
        /\ outcome.failures = ExpectedFailures(1)
        /\ outcome.total = Cardinality(Relays)

\* C7: publishToRelays never fails whatever the relays do: every task ends
\* fulfilled or rejected and the outcome returned has
\* successes + number of failure reasons = total = number of relays.
C7_OutcomeAccountsForAll ==
    returned =>
        /\ \A p \in Relays : status[p] \in {"fulfilled", "rejected"}
        /\ outcome.successes + Len(outcome.failures) = outcome.total
        /\ outcome.total = Cardinality(Relays)
        /\ outcome.successes = Cardinality({p \in Relays : status[p] = "fulfilled"})

\* no relay accepted: a connection failed, a relay rejected, and a relay stayed
\* silent or its socket failed
C7_Witness ==
    /\ returned
    /\ outcome.successes = 0
    /\ \E p, q, r \in Relays :
          /\ exit[p] \in {"connect-error", "connect-timeout"}
          /\ exit[q] = "ack"
          /\ exit[r] \in {"timeout", "error"}

\* C8: a relay's task is settled by an acknowledgment only when the
\* acknowledgment carries the id of the published event.
C8_AckCorrelated == \A p \in Relays : exit[p] = "ack" => ackId[p] = PublishedId

\* C9: publishToRelays returns only once every relay's task is settled, and
\* when a relay connected and then never acknowledged, that is still no later
\* than timeout after the call started.
C9_PublishWithinTimeout ==
    returned =>
        /\ \A p \in Relays : status[p] # "pending"
        /\ (\E p \in Relays : exit[p] = "timeout") => now <= Timeout

-----------------------------------------------------------------------------
(* Properties of calculateTrustScore *)

\* the weight table of the trust score, in tenths: every type outside the
\* four named ones weighs 0.8
TableWeight(type) ==
    CASE type = "service-quality" -> 15
      [] type = "work-completed" -> 12
      [] type = "identity-continuity" -> 10
      [] OTHER -> 8

\* the claim types an attestation carries in the ai.wot namespace
NamespaceTypes(event) ==
    {event.tags[i][2] : i \in {j \in 1..Len(event.tags) :
                                   /\ Len(event.tags[j]) >= 3
                                   /\ event.tags[j][1] = "l"
                                   /\ event.tags[j][3] = WOT_NAMESPACE}}

\* the weights of the attestations of attester pk in the list atts
WeightsOf(atts, pk) ==
    {IF NamespaceTypes(atts[i]) = {} THEN TableWeight("general-trust")
     ELSE TableWeight(CHOOSE t \in NamespaceTypes(atts[i]) : TRUE) :
        i \in {j \in 1..Len(atts) : atts[j].pubkey = pk}}

HighestWeight(atts, pk) ==
    CHOOSE w \in WeightsOf(atts, pk) : \A v \in WeightsOf(atts, pk) : v <= w

NonSelfAttesters(atts) == {atts[i].pubkey : i \in 1..Len(atts)} \ {Target}

RECURSIVE SumOfHighest(_, _)
SumOfHighest(atts, pks) ==
    IF pks = {} THEN 0
    ELSE LET pk == CHOOSE x \in pks : TRUE
         IN  HighestWeight(atts, pk) + SumOfHighest(atts, pks \ {pk})

\* C15: the score is the sum, over the distinct attesters other than the
\* target, of ten times the attester's highest weight (1.5, 1.2, 1.0, 0.8, and
\* 0.8 for an unknown type or a missing label), attesters is their number, and
\* the list A, B, C plus a self-attestation scores 35 with 3 attesters.
C15_WeightedScore ==
    scored =>
        /\ trust.score = Num(SumOfHighest(attestations, NonSelfAttesters(attestations)))
        /\ trust.attesters = Cardinality(NonSelfAttesters(attestations))
        /\ attestations = ExampleAttestations
              => trust.score = Num(35) /\ trust.attesters = 3

\* C16: for an attester with several attestations the weight retained is the
\* highest of their weights, in whatever order they arrive and whatever their
\* created_at.
C16_HighestWeightRetained ==
    scored =>
        \A i \in 1..Len(trust.details) :
            LET pk == trust.details[i].pubkey
            IN  Cardinality({j \in 1..Len(attestations) : attestations[j].pubkey = pk}) > 1
                    => trust.details[i].weight = Num(HighestWeight(attestations, pk))

WithoutSelf(atts) == SelectSeq(atts, LAMBDA e : e.pubkey # Target)

\* C17: the details never name the target, the value returned is the one
\* returned for the list without the target's own attestations, and a list of
\* such attestations alone gives score 0 with 0 attesters.
C17_SelfNeverCounts ==
    scored =>
        /\ \A i \in 1..Len(trust.details) : trust.details[i].pubkey # Target
        /\ trust = CalculateTrustScore(WithoutSelf(attestations), Target)
        /\ WithoutSelf(attestations) = <<>>
              => trust.score = Num(0) /\ trust.attesters = 0

\* the target attests itself with the highest weight next to another attester
C17_Witness ==
    /\ scored
    /\ \E i, j \in 1..Len(attestations) :
          /\ attestations[i].pubkey = Target
          /\ AttestationType(attestations[i]) = "service-quality"
          /\ attestations[j].pubkey # Target
    /\ trust.attesters = 1

-----------------------------------------------------------------------------
(* Properties of findServices and enrichWithTrust *)

\* the identity of a replaceable event: owner, kind and the value of its d tag
Group(e) ==
    <<e.pubkey, e.kind,
      {e.tags[i][2] : i \in {j \in 1..Len(e.tags) : e.tags[j][1] = "d"}}>>

Groups == {Group(queried[i]) : i \in 1..Len(queried)}

\* the queried event a service was parsed from
EventOf(svc) == CHOOSE e \in Range(queried) : e.id = svc.eventId

\* C12: the latest-version resolution keeps exactly one service for every
\* (owner, kind, discriminator) group of the queried events, parsed from an
\* event of the group whose created_at is the greatest of the group.
C12_OnePerGroupLatest ==
    findPc # "querying" =>
        /\ \A i \in 1..Len(latest) : \E e \in Range(queried) : e.id = latest[i].eventId
        /\ \A g \in Groups :
              Cardinality({i \in 1..Len(latest) : Group(EventOf(latest[i])) = g}) = 1
        /\ \A i \in 1..Len(latest) :
              \A e \in Range(queried) :
                  Group(e) = Group(EventOf(latest[i]))
                      => e.created_at <= latest[i].createdAt

\* an older version arrives before the newer one, next to another group
C12_Witness ==
    /\ findPc = "done"
    /\ Len(latest) > 1
    /\ \E i, j \in 1..Len(queried) :
          /\ i < j
          /\ Group(queried[i]) = Group(queried[j])
          /\ queried[i].created_at < queried[j].created_at
          /\ \E k \in 1..Len(latest) : latest[k].eventId = queried[j].id

\* C13: the resolution applied to its own output gives that output again,
\* for every collection queried, also one with equal created_at in a group.
C13_Idempotent == findPc # "querying" => LatestPerKey(latest) = latest

\* two versions of one service with the same created_at, next to another group
C13_Witness ==
    /\ findPc = "done"
    /\ Len(latest) > 1
    /\ \E i, j \in 1..Len(queried) :
          /\ i < j
          /\ Group(queried[i]) = Group(queried[j])
          /\ queried[i].created_at = queried[j].created_at

NoTies(evts) ==
    \A i, j \in 1..Len(evts) :
        (i # j /\ Group(evts[i]) = Group(evts[j])) => evts[i].created_at # evts[j].created_at

Permuted(evts, pi) == [i \in 1..Len(evts) |-> evts[pi[i]]]

\* C14: when no two queried events of one group share a created_at, every
\* permutation of the queried events resolves to the same set of services.
C14_OrderInsensitive ==
    (findPc # "querying" /\ NoTies(queried)) =>
        \A pi \in Permutations(1..Len(queried)) :
            Range(LatestPerKey(ParseAll(Permuted(queried, pi)))) = Range(latest)

\* the newer version arrives before the older one
C14_Witness ==
    /\ findPc = "done"
    /\ NoTies(queried)
    /\ \E i, j \in 1..Len(queried) :
          /\ i < j
          /\ Group(queried[i]) = Group(queried[j])
          /\ queried[i].created_at > queried[j].created_at

EnrichmentAsked == IncludeTrustOf(opts) \/ opts.minTrust # <<>>

\* C18: enrichWithTrust returns one entry for every service it was given, in
\* the order given, each with a trust value; an owner whose fetch returned
\* nothing or whose task got no entry into trustMap has the zero score.
C18_EnrichTotal ==
    (findPc = "done" /\ EnrichmentAsked) =>
        /\ Len(enriched) = Len(filtered)
        /\ \A i \in 1..Len(enriched) :
              /\ [enriched[i] EXCEPT !.trust = <<>>, !.trustScore = <<>>] = filtered[i]
              /\ enriched[i].trust # <<>>
              /\ enriched[i].trustScore = <<enriched[i].trust[1].score>>
              /\ fetch[enriched[i].pubkey] = "rejected"
                    => enriched[i].trust = <<ZeroTrust>>
              /\ (fetch[enriched[i].pubkey] = "fulfilled"
                      /\ fetched[enriched[i].pubkey] = <<>>)
                    => enriched[i].trust = <<ZeroTrust>>

\* one owner's task was rejected, another owner got a score
C18_Witness ==
    /\ findPc = "done"
    /\ Len(enriched) > 1
    /\ \E i, j \in 1..Len(enriched) :
          /\ i < j
          /\ fetch[enriched[i].pubkey] = "rejected"
          /\ fetch[enriched[j].pubkey] = "fulfilled"
          /\ enriched[j].trust[1].score = Num(15)

\* C19: the array returned is in descending order of trust score, a service
\* without a score counting as 0, and services of equal score are in
\* descending order of creation date.
C19_SortedByTrustThenDate ==
    findPc = "done" =>
        \A i, j \in 1..Len(result) :
            i < j =>
                \/ ScoreOrZero(result[i]) > ScoreOrZero(result[j])
                \/ /\ ScoreOrZero(result[i]) = ScoreOrZero(result[j])
                   /\ result[i].createdAt >= result[j].createdAt

\* the service with the higher score is the older one and was queried last
C19_Witness ==
    /\ findPc = "done"
    /\ Len(result) = 2
    /\ ScoreOrZero(result[1]) > ScoreOrZero(result[2])
    /\ result[1].createdAt < result[2].createdAt
    /\ filtered[1].eventId = result[2].eventId

\* the trust score findServices has for a latest-version service
TrustScoreOf(svc) ==
    IF svc.pubkey \in DOMAIN trustMap THEN trustMap[svc.pubkey].score ELSE Num(0)

Passes(svc) ==
    /\ svc.status = (IF opts.status = <<>> THEN "active" ELSE opts.status[1])
    /\ opts.maxPrice # <<>>
          => svc.price = <<>> \/ LessEq(svc.price[1].amount, Num(opts.maxPrice[1]))
    /\ opts.minTrust # <<>> => GreaterEq(TrustScoreOf(svc), Num(opts.minTrust[1]))

\* C20: before the limit, the services of the result are exactly the
\* latest-version services whose status is the requested one ('active' when
\* none is requested), whose price is absent or at most maxPrice when maxPrice
\* is given, and whose trust score is at least minTrust when minTrust is given.
C20_FiltersExact ==
    findPc = "done" =>
        /\ {sorted[i].eventId : i \in 1..Len(sorted)}
              = {latest[i].eventId : i \in {j \in 1..Len(latest) : Passes(latest[j])}}
        /\ Len(sorted) = Cardinality({j \in 1..Len(latest) : Passes(latest[j])})

\* with maxPrice given, a service without a price is returned and the latest
\* version of another service is too expensive
C20_Witness ==
    /\ findPc = "done"
    /\ opts.maxPrice # <<>>
    /\ Len(latest) = 2
    /\ Len(sorted) = 1
    /\ sorted[1].price = <<>>
    /\ \E i \in 1..Len(latest) :
          /\ latest[i].status = "active"
          /\ latest[i].price # <<>>
          /\ Greater(latest[i].price[1].amount, Num(opts.maxPrice[1]))

-----------------------------------------------------------------------------
(* Further properties of queryRelays and publishToRelays *)

\* C28: a relay contributes only what it delivered before its own terminal
\* state: every record of the merged result was in the array of some task
\* when that task settled.
C28_NoLateRecords ==
    returned =>
        \A i \in 1..Len(merged) :
            \E p \in Relays : \E k \in 1..Len(resolved[p]) : resolved[p][k] = merged[i]

\* C26: within one queryRelays or publishToRelays call a relay's socket is in
\* its connection attempt only before anything has happened on it, and the
\* relay is sent at most one REQ and at most one EVENT, whatever failures
\* occur.
C26_NoRetry ==
    \A p \in Relays :
        /\ ws[p] = "connecting" => (~opened[p] /\ exit[p] = "" /\ sent[p] = <<>>)
        /\ Cardinality(SentOf(p, "REQ")) <= 1
        /\ Cardinality(SentOf(p, "EVENT")) <= 1
        /\ Cardinality(SentOf(p, "REQ")) + Cardinality(SentOf(p, "EVENT")) <= 1

\* a publish call returned after a relay could not be reached and another
\* one, sent the event once, never acknowledged
C26_Witness ==
    /\ returned
    /\ call = "publishToRelays"
    /\ \E p, q \in Relays :
          /\ exit[p] = "connect-error" /\ sent[p] = <<>>
          /\ exit[q] = "timeout" /\ sent[q] = <<"EVENT">>

\* C27: when the clock advances and due timers fire, queryRelays eventually
\* returns whatever the relays do, and when it has returned every relay task
\* is settled by a connect failure, query-complete, its timer, or a socket
\* error or close.
C27_EventuallyReturns ==
    /\ <>returned
    /\ [](returned =>
            \A p \in Relays :
                /\ status[p] # "pending"
                /\ exit[p] \in {"connect-error", "connect-timeout", "eose", "timeout",
                                "error", "close"})

\* the call returned although one relay never finished the handshake and
\* the others never sent a message
C27_Witness ==
    /\ returned
    /\ \E p \in Relays : exit[p] = "connect-timeout"
    /\ \A p \in Relays :
          /\ exit[p] \in {"connect-timeout", "timeout"}
          /\ delivered[p] = <<>>

\* C29: the merged result of queryRelays and the outcome of publishToRelays
\* keep their initial value while the call has not returned, whatever tasks
\* have settled, and are written in the step that returns, when every task
\* is settled.
C29_SingleAggregation ==
    /\ ~returned => (merged = <<>> /\ outcome = NoOutcome)
    /\ returned => \A p \in Relays : status[p] # "pending"
    /\ (returned /\ call = "queryRelays") => merged = MergeResults(status, events)
    /\ (returned /\ call = "publishToRelays") => outcome = Aggregate(status, reason)

\* a query returned the records of two relays that settled at different
\* times
C29_Witness ==
    /\ returned
    /\ call = "queryRelays"
    /\ Len(merged) = 2
    /\ \E p, q \in Relays :
          /\ exit[p] = "eose" /\ events[p] # <<>>
          /\ exit[q] = "timeout" /\ events[q] # <<>>

\* the text names the relay's url
NamesRelay(text, p) ==
    \E before \in {"", "Connection to ", "Publish to "} :
        \E after \in {"", " timed out"} : text = before \o Url(p) \o after

\* C25: connectRelay settles once and within the timeout: while it is pending
\* no more than the timeout has passed; a failure (timeout or transport error)
\* rejects with an error that names the relay's url and is never followed by
\* a connection; a connection is never followed by a failure of connectRelay.
C25_ConnectSettles ==
    \A p \in Relays :
        /\ (~opened[p] /\ status[p] = "pending") => now <= Timeout
        /\ exit[p] \in {"connect-error", "connect-timeout"}
              => /\ ~opened[p]
                 /\ ws[p] # "open"
                 /\ status[p] = "rejected"
                 /\ NamesRelay(reason[p], p)
        /\ opened[p] => exit[p] \notin {"connect-error", "connect-timeout"}

-----------------------------------------------------------------------------
\* C30: a malformed message or a record whose signature does not verify is
\* dropped without ending the relay task: the state of every task, its
\* connection, its timer and the records it has collected stay as they are,
\* and the records collected are at all times exactly the valid records
\* delivered, those after a dropped message included.
C30_DropAndContinue ==
    /\ [](\A p \in Relays : events[p] = SelectSeq(delivered[p], VerifyEvent))
    /\ [][\A p \in Relays :
            (delivered'[p] # delivered[p] /\ ~VerifyEvent(delivered'[p][Len(delivered'[p])]))
                => /\ status'[p] = status[p] /\ exit'[p] = exit[p] /\ ws'[p] = ws[p]
                   /\ timer'[p] = timer[p] /\ events'[p] = events[p]]_vars
    /\ [][malformed' # malformed => UNCHANGED <<status, exit, ws, timer, events>>]_vars

\* a relay sent a forged record and then a valid one before query-complete,
\* and the valid one is returned
C30_Witness ==
    /\ returned
    /\ \E p \in Relays :
          /\ exit[p] = "eose"
          /\ Len(delivered[p]) = 2
          /\ ~VerifyEvent(delivered[p][1])
          /\ VerifyEvent(delivered[p][2])
          /\ events[p] = <<delivered[p][2]>>
          /\ merged = <<delivered[p][2]>>

-----------------------------------------------------------------------------
\* C34: in publishToRelays the outcome of a relay is fixed by the first event
\* that settles its task: a settled task keeps its state, its reason and the
\* event that settled it, an acknowledgment that reaches a settled task (after
\* its timeout, or a second one) changes nothing, and the outcome returned
\* counts every relay once.
C34_FirstTerminalEventStands ==
    /\ [][\A p \in Relays :
            status[p] # "pending"
                => /\ status'[p] = status[p] /\ reason'[p] = reason[p]
                   /\ exit'[p] = exit[p] /\ ackId'[p] = ackId[p]]_vars
    /\ [][late' # late => UNCHANGED <<status, reason, exit, ackId, returned, outcome>>]_vars
    /\ [](returned =>
            /\ outcome.successes = Cardinality({p \in Relays : status[p] = "fulfilled"})
            /\ Len(outcome.failures) = Cardinality({p \in Relays : status[p] = "rejected"})
            /\ \A p \in Relays : exit[p] = "timeout" => status[p] = "rejected")

\* the only relay reached was acknowledged too late: its task had ended by
\* the timer, and the outcome counts it as a failure by timeout
C34_Witness ==
    /\ returned
    /\ late
    /\ outcome.successes = 0
    /\ \E p \in Relays :
          /\ exit[p] = "timeout" /\ reason[p] = PublishTimeoutText(p)
          /\ \A q \in Relays \ {p} : exit[q] \in {"connect-error", "connect-timeout"}

\* C35: a record whose signature does not verify never suppresses a valid
\* record of the same id: for every valid record a relay delivered on its
\* subscription, the result of queryRelays holds a valid record with its id,
\* whatever forged records with that id the relays delivered and in whatever
\* order.
C35_ForgedNeverSuppresses ==
    returned =>
        \A p \in Relays : \A k \in 1..Len(delivered[p]) :
            VerifyEvent(delivered[p][k])
                => \E i \in 1..Len(merged) :
                       merged[i].id = delivered[p][k].id /\ VerifyEvent(merged[i])

\* an earlier relay of the list delivered a forged record, a later one the
\* valid record with the same id, and the valid one is the result
C35_Witness ==
    /\ returned
    /\ \E p, q \in Relays :
          /\ p < q
          /\ Len(delivered[p]) = 1 /\ ~VerifyEvent(delivered[p][1])
          /\ Len(delivered[q]) = 1 /\ VerifyEvent(delivered[q][1])
          /\ delivered[p][1].id = delivered[q][1].id
          /\ merged = delivered[q]

\* the first of the records of s whose created_at is the greatest
FirstNewest(s) ==
    s[CHOOSE i \in 1..Len(s) :
        /\ \A j \in 1..Len(s) : s[j].created_at <= s[i].created_at
        /\ \A j \in 1..(i - 1) : s[j].created_at < s[i].created_at]

\* two records of s have the same identity and the same created_at
HasTie(s) ==
    \E i, j \in 1..Len(s) :
        /\ i < j
        /\ s[i].id # s[j].id
        /\ Group(s[i]) = Group(s[j])
        /\ s[i].created_at = s[j].created_at

\* C32: when findServices met two records of one identity with the same
\* created_at, the record it keeps is fixed by what the relay tasks resolved
\* with and the relay list alone: it is the first newest record when the
\* arrays the tasks resolved with are put in relay-list order, whatever the
\* order in which the tasks connected and settled.
C32_TieDeterministic ==
    findPc = "done" /\ HasTie(queried) =>
        LET R == ConcatUpTo(resolved, Cardinality(Relays))
        IN  /\ R # <<>>
            /\ Len(latest) = 1
            /\ latest[1].eventId = FirstNewest(R).id

\* C33: enrichWithTrust starts one attestation fetch for every distinct owner
\* of the services it was given and no other, and in its result the trust of
\* a service is the score of what the fetch of its own owner returned, or the
\* zero score when that fetch failed: services of one owner have the same
\* trust, and the outcome and order of the other owners' fetches play no part.
C33_TrustPerOwner ==
    /\ (findPc = "enriching" \/ (findPc = "done" /\ EnrichmentAsked /\ filtered # <<>>))
          => /\ DOMAIN fetch = Pubkeys(filtered)
             /\ DOMAIN fetched = {pk \in DOMAIN fetch : fetch[pk] = "fulfilled"}
    /\ (findPc = "done" /\ EnrichmentAsked)
          => \A i \in 1..Len(enriched) :
                LET pk == enriched[i].pubkey
                IN  enriched[i].trust =
                        <<IF fetch[pk] = "fulfilled"
                          THEN CalculateTrustScore(fetched[pk], pk) ELSE ZeroTrust>>

\* services of two owners: one owner's fetch failed, the other owner's fetch
\* returned an attestation and that owner's service has its score
C33_Witness ==
    /\ findPc = "done"
    /\ Len(enriched) = 2
    /\ enriched[1].pubkey # enriched[2].pubkey
    /\ \E i, j \in 1..2 :
          /\ fetch[enriched[i].pubkey] = "rejected"
          /\ fetch[enriched[j].pubkey] = "fulfilled"
          /\ fetched[enriched[j].pubkey] # <<>>
          /\ enriched[j].trust = <<CalculateTrustScore(fetched[enriched[j].pubkey],
                                                       enriched[j].pubkey)>>
          /\ enriched[j].trust # <<ZeroTrust>>

\* the weight retained for every attester of a score
RetainedWeights(t) ==
    {<<t.details[i].pubkey, t.details[i].weight>> : i \in 1..Len(t.details)}

\* C36: calculateTrustScore gives the same score, the same number of
\* attesters and the same weight for every attester for every permutation of
\* the attestation list.
C36_OrderInsensitive ==
    scored =>
        \A pi \in Permutations(1..Len(attestations)) :
            LET other == CalculateTrustScore(Permuted(attestations, pi), Target)
            IN  /\ other.score = trust.score
                /\ other.attesters = trust.attesters
                /\ RetainedWeights(other) = RetainedWeights(trust)

\* C31: a record or a query-complete signal that carries another
\* subscription id than the one generated for the relay's query changes
\* nothing: no task's promise, socket, timer, array or sent messages; and
\* every record a task holds was delivered on its own subscription.
C31_OwnSubscriptionOnly ==
    /\ [][foreign' # foreign
            => UNCHANGED <<status, exit, ws, timer, events, delivered, sent, returned,
                           merged>>]_vars
    /\ [](\A p \in Relays : \A i \in 1..Len(events[p]) :
              \E k \in 1..Len(delivered[p]) : delivered[p][k] = events[p][i])

\* a relay that was reached sent only messages of another subscription, and
\* its task ended by the timer with nothing collected
C31_Witness ==
    /\ returned
    /\ foreign = MaxMsgs
    /\ merged = <<>>
    /\ \E p \in Relays : opened[p] /\ exit[p] = "timeout" /\ events[p] = <<>>

-----------------------------------------------------------------------------
(* Further properties of findServices, getService and the service events *)

\* C22: when a limit is given, the array returned has at most limit services
\* and is the beginning of the filtered and sorted array, also for limit 0.
C22_LimitPrefix ==
    (findPc = "done" /\ opts.limit # <<>>) =>
        /\ Len(result) <= opts.limit[1]
        /\ \A i \in 1..Len(result) : result[i] = sorted[i]
        /\ Len(result) = Len(sorted) \/ Len(result) = opts.limit[1]

\* the event removeService announced
Removal == announced[2]

\* C21: once the service is removed, a findServices call with the default
\* status whose queried events contain the removal event does not return the
\* service, whatever older version is queried as well.
C21_RemovedIsHidden ==
    (findPc = "done" /\ Len(announced) = 2
        /\ \E i \in 1..Len(queried) : queried[i] = Removal)
      => \A i \in 1..Len(result) :
             ~(result[i].pubkey = Owner /\ result[i].id = <<definition.id>>)

AllPresent(o) ==
    /\ Truthy(o.name) /\ o.capabilities # <<>> /\ o.price # <<>>
    /\ Truthy(o.price[1].currency) /\ Truthy(o.price[1].per)
    /\ Truthy(o.lnAddress) /\ Truthy(o.status) /\ o.dvmKinds # <<>> /\ o.hashtags # <<>>

WithoutTrust(service) == [service EXCEPT !.trust = <<>>, !.trustScore = <<>>]

\* C23: getService returns null when the relays return no record, and
\* otherwise the service parsed from a record whose created_at is the
\* greatest of all records returned.
C23_LatestOrNull ==
    getPc = "done" =>
        IF Len(queried) = 0 THEN got = <<>>
        ELSE /\ got # <<>>
             /\ \E i \in 1..Len(queried) :
                    /\ \A j \in 1..Len(queried) : queried[j].created_at <= queried[i].created_at
                    /\ WithoutTrust(got[1]) = ParseServiceEvent(queried[i])

\* the newest record came after an older one and the service came back with
\* its trust attached
C23_Witness ==
    /\ getPc = "done"
    /\ Len(queried) = 3
    /\ queried[1].created_at < queried[3].created_at
    /\ got # <<>>
    /\ got[1].trust # <<>>
    /\ got[1].eventId = queried[3].id

====
